---- MODULE Spec2Model ----
(***************************************************************************)
(* Model of avcdsld/executed-poetry, src/5in83: the Ed25519 primitive of   *)
(* ed25519.py (field, curve, encoding, key derivation, signing) and the    *)
(* button/poem loop of main.py.                                            *)
(*                                                                         *)
(* TLC integers are 32 bits wide, the program's are unbounded and about    *)
(* 2^255.  The curve is therefore instantiated at a smaller member of the  *)
(* same family, every formula of the source kept as written:               *)
(*     source                          model                               *)
(*     byte = 256, hex digit = 16      byte = 4, digit = 2                 *)
(*     key and point strings 32 bytes  KeyLen = 5 bytes (10 bits)          *)
(*     Q = 2^255 - 19  (5 mod 8)       Q = 2^9 - 219 = 293  (5 mod 8)      *)
(*     d = -121665/121666              d = -20/21 (a non-square)           *)
(*     By = 4/5, Bx = _xrecover(By)    the same                            *)
(*     curve of 8*L points, L prime    curve of 8*37 points                *)
(*     L = order of B                  L = 37 = order of B                 *)
(*     SHA-512, 64 bytes               a keyed digest of 2*KeyLen bytes    *)
(* 293 with 20/21 is the curve of this shape below 2^9 whose base point    *)
(* (_xrecover(4/5), 4/5) has prime order with cofactor 8 and on which      *)
(* every product of the source stays below 2^31.                           *)
(***************************************************************************)
EXTENDS Integers, Sequences, FiniteSets, TLC

(***************************************************************************)
(* Bounds of the model.                                                    *)
(***************************************************************************)
MaxMsgLen == 1
MaxSeedVar == 15
MaxHKey == 1
MaxN == 9
MaxZ == 2
MaxExec == 4
MaxFileIdx == 12

(***************************************************************************)
(* Scaled program constants.                                               *)
(***************************************************************************)
DigitBase == 2
ByteBase == DigitBase * DigitBase
KeyLen == 5
KeyBits == 2 * KeyLen

Q == 2^(KeyBits - 1) - 219
L == 37

VARIABLES hkey, pc, op, priv_key, message, stage, sm, pub_key, R_bytes,
          result, inv_log, hash_calls, ar,
          memfile, current_idx, key0_pressed, key1_pressed, since_irq,
          mpc, memory, read_idx, execs

cryptoVars == <<hkey, pc, op, priv_key, message, stage, sm, pub_key, R_bytes,
                result, inv_log, hash_calls>>
mainVars == <<memfile, current_idx, key0_pressed, key1_pressed, since_irq,
              mpc, memory, read_idx, execs>>
vars == <<cryptoVars, ar, mainVars>>

(***************************************************************************)
(* Integer helpers: Python's pow(b, e, m), &, |.                           *)
(***************************************************************************)
RECURSIVE PowMod(_, _, _)
PowMod(b, e, m) ==
  IF e = 0 THEN 1 % m
  ELSE LET h == PowMod(b % m, e \div 2, m)
           s == (h * h) % m
       IN IF e % 2 = 1 THEN (s * (b % m)) % m ELSE s

RECURSIVE BitAnd(_, _)
BitAnd(a, b) ==
  IF a = 0 \/ b = 0 THEN 0
  ELSE (a % 2) * (b % 2) + 2 * BitAnd(a \div 2, b \div 2)

RECURSIVE BitOr(_, _)
BitOr(a, b) ==
  IF a = 0 THEN b
  ELSE IF b = 0 THEN a
  ELSE (IF a % 2 = 1 \/ b % 2 = 1 THEN 1 ELSE 0) + 2 * BitOr(a \div 2, b \div 2)

(***************************************************************************)
(* ed25519.py: field and curve constants.                                  *)
(***************************************************************************)
_rev(b) == [i \in 1..Len(b) |-> b[Len(b) + 1 - i]]

\* pow(x, Q-2, Q) reduces its base modulo Q first; the table holds the value
\* for every residue.
InvTable == [x \in 0..(Q - 1) |-> PowMod(x, Q - 2, Q)]

_inv(x) == InvTable[x % Q]

d == -20 * _inv(21)
I == PowMod(2, (Q - 1) \div 4, Q)

_xrecover(y) ==
  LET xx == (y * y - 1) * _inv(d * y * y + 1)
      x0 == PowMod(xx, (Q + 3) \div 8, Q)
      x1 == IF (x0 * x0 - xx) % Q # 0 THEN (x0 * I) % Q ELSE x0
  IN IF x1 % 2 # 0 THEN Q - x1 ELSE x1

By == 4 * _inv(5)
Bx == _xrecover(By)
B == <<Bx % Q, By % Q>>

\* The arguments _inv receives while the module is imported (lines 44, 48, 56).
ImportInvArgs == {21, d * By * By + 1, 5}


(***************************************************************************)
(* ed25519.py: point arithmetic in extended coordinates <<X, Y, Z, T>>.    *)
(***************************************************************************)
_xform_affine_to_extended(pt) ==
  LET x == pt[1]
      y == pt[2]
  IN <<x % Q, y % Q, 1, (x * y) % Q>>

\* The conversion without the reduction modulo Q.
_xform_extended_to_affine_unreduced(pt) ==
  LET x == pt[1]
      y == pt[2]
      z == pt[3]
  IN <<x * _inv(z), y * _inv(z)>>

_xform_extended_to_affine(pt) ==
  LET x == pt[1]
      y == pt[2]
      z == pt[3]
  IN <<(x * _inv(z)) % Q, (y * _inv(z)) % Q>>

\* Every local of _double_element, in the order the code assigns them.
_double_element_locals(pt) ==
  LET X1 == pt[1]
      Y1 == pt[2]
      Z1 == pt[3]
      A == X1 * X1
      Bv == Y1 * Y1
      C == 2 * Z1 * Z1
      D == (-A) % Q
      J == (X1 + Y1) % Q
      E == (J * J - A - Bv) % Q
      G == (D + Bv) % Q
      F == (G - C) % Q
      H == (D - Bv) % Q
  IN [A |-> A, Bv |-> Bv, C |-> C, D |-> D, J |-> J, E |-> E, G |-> G,
      F |-> F, H |-> H,
      X3 |-> (E * F) % Q, Y3 |-> (G * H) % Q,
      Z3 |-> (F * G) % Q, T3 |-> (E * H) % Q]

_double_element(pt) ==
  LET v == _double_element_locals(pt)
  IN <<v.X3, v.Y3, v.Z3, v.T3>>

_add_elements(pt1, pt2) ==
  LET X1 == pt1[1]
      Y1 == pt1[2]
      Z1 == pt1[3]
      T1 == pt1[4]
      X2 == pt2[1]
      Y2 == pt2[2]
      Z2 == pt2[3]
      T2 == pt2[4]
      A == ((Y1 - X1) * (Y2 + X2)) % Q
      Bv == ((Y1 + X1) * (Y2 - X2)) % Q
      C == (Z1 * 2 * T2) % Q
      D == (T1 * 2 * Z2) % Q
      E == (D + C) % Q
      F == (Bv - A) % Q
      G == (Bv + A) % Q
      H == (D - C) % Q
  IN <<(E * F) % Q, (G * H) % Q, (F * G) % Q, (E * H) % Q>>

\* The loop body with lines 111-112 indented under the if of line 109.
_scalarmult_step_indented(s) ==
  IF s.n % 2 = 1
  THEN [R |-> _add_elements(s.R, s.Q),
        Q |-> _double_element(s.Q),
        n |-> s.n \div 2]
  ELSE s

\* One iteration of the while loop of _scalarmult_element (lines 109-112) on
\* its locals R, Q (the running power of pt, which shadows the modulus) and n.
_scalarmult_step(s) ==
  [R |-> IF s.n % 2 = 1 THEN _add_elements(s.R, s.Q) ELSE s.R,
   Q |-> _double_element(s.Q),
   n |-> s.n \div 2]

\* The locals on entry to the loop (lines 106-107).
_scalarmult_entry(pt, n) ==
  [R |-> _xform_affine_to_extended(<<0, 1>>), Q |-> pt, n |-> n]

RECURSIVE _scalarmult_loop(_)
_scalarmult_loop(s) ==
  IF s.n > 0 THEN _scalarmult_loop(_scalarmult_step(s)) ELSE s.R

_scalarmult_element(pt, n) ==
  IF n = 0 THEN _xform_affine_to_extended(<<0, 1>>)
  ELSE _scalarmult_loop(_scalarmult_entry(pt, n))

(***************************************************************************)
(* ed25519.py: byte strings, digit strings and integers.  A byte string is *)
(* a sequence over 0..ByteBase-1, a hex string one over 0..DigitBase-1.    *)
(***************************************************************************)
RECURSIVE HexDigits(_)
HexDigits(y) ==
  IF y < DigitBase THEN <<y>>
  ELSE Append(HexDigits(y \div DigitBase), y % DigitBase)

\* "%0<width>x" % y for y >= 0: at least width digits, never truncated.
FormatHex(y, width) ==
  LET ds == HexDigits(y)
  IN IF Len(ds) >= width THEN ds
     ELSE [i \in 1..(width - Len(ds)) |-> 0] \o ds

\* binascii.unhexlify raises on an odd number of digits.
BinasciiError == <<-1>>

unhexlify(h) ==
  IF Len(h) % 2 # 0 THEN BinasciiError
  ELSE [i \in 1..(Len(h) \div 2) |-> h[2 * i - 1] * DigitBase + h[2 * i]]

hexlify(b) ==
  [i \in 1..(2 * Len(b)) |->
     IF i % 2 = 1 THEN b[(i + 1) \div 2] \div DigitBase
     ELSE b[i \div 2] % DigitBase]

\* int(h, 16)
RECURSIVE HexToInt(_)
HexToInt(h) ==
  IF h = <<>> THEN 0
  ELSE HexToInt(SubSeq(h, 1, Len(h) - 1)) * DigitBase + h[Len(h)]

_encodepoint(P) ==
  LET x == P[1]
      y == P[2]
      y2 == IF x % 2 = 1 THEN y + 2^(KeyBits - 1) ELSE y
  IN _rev(unhexlify(FormatHex(y2, 2 * KeyLen)))

_bytes_to_scalar(s) == HexToInt(hexlify(_rev(s)))

\* The clamp with a mask that clears two low bits instead of three.
_bytes_to_clamped_scalar_mask3(s) ==
  LET a_unclamped == _bytes_to_scalar(s)
      AND_CLAMP == 2^(KeyBits - 2) - 1 - 3
      OR_CLAMP == 2^(KeyBits - 2)
  IN BitOr(BitAnd(a_unclamped, AND_CLAMP), OR_CLAMP)

_bytes_to_clamped_scalar(s) ==
  LET a_unclamped == _bytes_to_scalar(s)
      AND_CLAMP == 2^(KeyBits - 2) - 1 - 7
      OR_CLAMP == 2^(KeyBits - 2)
  IN BitOr(BitAnd(a_unclamped, AND_CLAMP), OR_CLAMP)

_scalar_to_bytes(y) == _rev(unhexlify(FormatHex(y % L, 2 * KeyLen)))

(***************************************************************************)
(* The digest.  hashlib.sha512 is a library call the interpreter supplies; *)
(* it is represented by a family of deterministic functions, one for each  *)
(* value of hkey, from byte strings to strings of 2*KeyLen bytes.          *)
(***************************************************************************)
DigestMod == ByteBase^(2 * KeyLen)

RECURSIVE Absorb(_, _)
Absorb(acc, m) ==
  IF m = <<>> THEN acc
  ELSE Absorb((acc * 1103 + 7919 * (Head(m) + 1) + 12345) % DigestMod, Tail(m))

_H(m) ==
  LET v0 == Absorb(40503 + 65599 * hkey, m)
      v1 == Absorb(v0, <<Len(m) % ByteBase, 1, 2, 3>>)
      v == (v1 + (v1 \div 2^11) * 37) % DigestMod
  IN unhexlify(FormatHex(v, 4 * KeyLen))

_Hint(m) == HexToInt(hexlify(_rev(_H(m))))

(***************************************************************************)
(* ed25519.py: create_public_key and sign as functions of their arguments. *)
(* ValueError stands for the exception raised at lines 224 and 233.        *)
(***************************************************************************)
ValueError == <<-2>>

\* The test with < in place of !=.
WrongLength_short_only(k) == Len(k) < KeyLen

\* The test of lines 223 and 232.
WrongLength(k) == Len(k) # KeyLen

create_public_key(seed) ==
  IF WrongLength(seed) THEN ValueError
  ELSE LET h == _H(seed)
           a == _bytes_to_clamped_scalar(SubSeq(h, 1, KeyLen))
           A_pt == _scalarmult_element(_xform_affine_to_extended(B), a)
           A_affine == _xform_extended_to_affine(A_pt)
       IN _encodepoint(A_affine)

sign(seed, msg) ==
  IF WrongLength(seed) THEN ValueError
  ELSE LET pub == create_public_key(seed)
           h == _H(seed)
           a_bytes == SubSeq(h, 1, KeyLen)
           inter == SubSeq(h, KeyLen + 1, 2 * KeyLen)
           a == _bytes_to_clamped_scalar(a_bytes)
           r == _Hint(inter \o msg)
           R_pt == _scalarmult_element(_xform_affine_to_extended(B), r)
           R_affine == _xform_extended_to_affine(R_pt)
           Rb == _encodepoint(R_affine)
           S == r + _Hint(Rb \o pub \o msg) * a
       IN Rb \o _scalar_to_bytes(S)


(***************************************************************************)
(* Inputs.                                                                 *)
(***************************************************************************)
Bytes == 0..(ByteBase - 1)

SeedOf(len, v) == [i \in 1..len |-> (v \div ByteBase^((i - 1) % 2)) % ByteBase]

Seeds == {SeedOf(len, v) : len \in 0..(KeyLen + 1), v \in 0..MaxSeedVar}

Messages == UNION {[1..n -> Bytes] : n \in 0..MaxMsgLen}

(***************************************************************************)
(* State of one call of create_public_key or sign.                         *)
(*   pc       "idle" no call running, "loop" inside the while loop of      *)
(*            _scalarmult_element, "done" returned, "error" raised         *)
(*   op       the function called                                          *)
(*   stage    which scalar multiplication runs: "A" (line 227), "R" (244)  *)
(*   sm       the locals R, Q, n of _scalarmult_element                    *)
(*   inv_log  every argument _inv has received, import included           *)
(*   hash_calls  the number of _H calls of the running call                *)
(***************************************************************************)
NoSm == [R |-> <<>>, Q |-> <<>>, n |-> 0]

IdleCrypto ==
  /\ pc = "idle"
  /\ op = "none"
  /\ priv_key = <<>>
  /\ message = <<>>
  /\ stage = "none"
  /\ sm = NoSm
  /\ pub_key = <<>>
  /\ R_bytes = <<>>
  /\ result = <<>>
  /\ inv_log = ImportInvArgs
  /\ hash_calls = 0

IdleArith == ar = [op |-> "none", pt |-> <<>>, n |-> 0, s |-> <<>>, out |-> <<>>]

IdleMain ==
  /\ memfile = "missing"
  /\ current_idx = 2
  /\ key0_pressed = FALSE
  /\ key1_pressed = FALSE
  /\ since_irq = 0
  /\ mpc = "off"
  /\ memory = [current_file_idx |-> 2, files |-> <<>>]
  /\ read_idx = 2
  /\ execs = 0

Init ==
  /\ hkey \in 0..MaxHKey
  /\ IdleCrypto
  /\ IdleArith
  /\ IdleMain

\* Lines 222-227: the length check, then h, a and the entry of the loop.
CallCreatePublicKey(seed) ==
  /\ pc = "idle"
  /\ op' = "create_public_key"
  /\ priv_key' = seed
  /\ message' = <<>>
  /\ pub_key' = <<>>
  /\ R_bytes' = <<>>
  /\ result' = <<>>
  /\ inv_log' = ImportInvArgs
  /\ IF WrongLength(seed)
     THEN /\ pc' = "error"
          /\ stage' = "none"
          /\ sm' = NoSm
          /\ hash_calls' = 0
     ELSE LET h == _H(seed)
              a == _bytes_to_clamped_scalar(SubSeq(h, 1, KeyLen))
          IN /\ pc' = "loop"
             /\ stage' = "A"
             /\ sm' = _scalarmult_entry(_xform_affine_to_extended(B), a)
             /\ hash_calls' = 1
  /\ UNCHANGED <<hkey, ar, mainVars>>

\* Lines 231-237: the length check, then the call of create_public_key.
CallSign(seed, msg) ==
  /\ pc = "idle"
  /\ op' = "sign"
  /\ priv_key' = seed
  /\ message' = msg
  /\ pub_key' = <<>>
  /\ R_bytes' = <<>>
  /\ result' = <<>>
  /\ inv_log' = ImportInvArgs
  /\ IF WrongLength(seed)
     THEN /\ pc' = "error"
          /\ stage' = "none"
          /\ sm' = NoSm
          /\ hash_calls' = 0
     ELSE LET h == _H(seed)
              a == _bytes_to_clamped_scalar(SubSeq(h, 1, KeyLen))
          IN /\ pc' = "loop"
             /\ stage' = "A"
             /\ sm' = _scalarmult_entry(_xform_affine_to_extended(B), a)
             /\ hash_calls' = 1
  /\ UNCHANGED <<hkey, ar, mainVars>>

\* Lines 108-112: one iteration of the while loop.
ScalarmultStep ==
  /\ pc = "loop"
  /\ sm.n > 0
  /\ sm' = _scalarmult_step(sm)
  /\ UNCHANGED <<hkey, pc, op, priv_key, message, stage, pub_key, R_bytes,
                 result, inv_log, hash_calls, ar, mainVars>>

\* Lines 228-229 when create_public_key was called directly.
PublicKeyReturn ==
  /\ pc = "loop"
  /\ sm.n = 0
  /\ op = "create_public_key"
  /\ stage = "A"
  /\ inv_log' = inv_log \cup {sm.R[3]}
  /\ \E A_affine \in {_xform_extended_to_affine(sm.R)} :
       result' = _encodepoint(A_affine)
  /\ pc' = "done"
  /\ UNCHANGED <<hkey, op, priv_key, message, stage, sm, pub_key, R_bytes,
                 hash_calls, ar, mainVars>>

\* Lines 228-229 inside sign, then lines 239-244 up to the entry of the
\* second scalar multiplication.
SignPublicKeyReturn ==
  /\ pc = "loop"
  /\ sm.n = 0
  /\ op = "sign"
  /\ stage = "A"
  /\ inv_log' = inv_log \cup {sm.R[3]}
  /\ pub_key' = _encodepoint(_xform_extended_to_affine(sm.R))
  /\ LET h == _H(priv_key)
         inter == SubSeq(h, KeyLen + 1, 2 * KeyLen)
         r == _Hint(inter \o message)
     IN sm' = _scalarmult_entry(_xform_affine_to_extended(B), r)
  /\ hash_calls' = hash_calls + 2
  /\ stage' = "R"
  /\ UNCHANGED <<hkey, pc, op, priv_key, message, R_bytes, result, ar,
                 mainVars>>

\* Lines 245-249.
SignReturn ==
  /\ pc = "loop"
  /\ sm.n = 0
  /\ op = "sign"
  /\ stage = "R"
  /\ inv_log' = inv_log \cup {sm.R[3]}
  /\ LET h == _H(priv_key)
         inter == SubSeq(h, KeyLen + 1, 2 * KeyLen)
         a == _bytes_to_clamped_scalar(SubSeq(h, 1, KeyLen))
         r == _Hint(inter \o message)
         Rb == _encodepoint(_xform_extended_to_affine(sm.R))
         S == r + _Hint(Rb \o pub_key \o message) * a
     IN /\ R_bytes' = Rb
        /\ result' = Rb \o _scalar_to_bytes(S)
  /\ hash_calls' = hash_calls + 1
  /\ pc' = "done"
  /\ UNCHANGED <<hkey, op, priv_key, message, stage, sm, pub_key, ar,
                 mainVars>>

\* The caller takes the result or the exception; the frame of the call is
\* gone and the module is idle again.
Return ==
  /\ pc \in {"done", "error"}
  /\ pc' = "idle"
  /\ op' = "none"
  /\ priv_key' = <<>>
  /\ message' = <<>>
  /\ stage' = "none"
  /\ sm' = NoSm
  /\ pub_key' = <<>>
  /\ R_bytes' = <<>>
  /\ result' = <<>>
  /\ inv_log' = ImportInvArgs
  /\ hash_calls' = 0
  /\ UNCHANGED <<hkey, ar, mainVars>>

Next ==
  \/ \E seed \in Seeds : CallCreatePublicKey(seed)
  \/ \E seed \in Seeds, msg \in Messages : CallSign(seed, msg)
  \/ ScalarmultStep
  \/ PublicKeyReturn
  \/ SignPublicKeyReturn
  \/ SignReturn
  \/ Return

Spec == Init /\ [][Next]_vars

\* A call that has started keeps running: the interpreter executes the next
\* statement of the loop and of the function body.
\* Key derivation alone, for its termination.  A call that has started keeps
\* running: the interpreter executes the next iteration of the loop and the
\* statements after it.
NextKey ==
  \/ \E seed \in Seeds : CallCreatePublicKey(seed)
  \/ ScalarmultStep
  \/ PublicKeyReturn
  \/ Return

FairKeySpec ==
  /\ Init
  /\ [][NextKey]_vars
  /\ WF_vars(ScalarmultStep)
  /\ WF_vars(PublicKeyReturn)

\* The stepwise run returns what the function returns.
StepwiseAgrees ==
  pc = "done" =>
    result = IF op = "sign" THEN sign(priv_key, message)
             ELSE create_public_key(priv_key)


(***************************************************************************)
(* The point and scalar functions applied on their own: ar holds the       *)
(* arguments, then the function applied (op) and what it returned (out).   *)
(***************************************************************************)
OnCurve(x, y) ==
  LET xx == (x * x) % Q
      yy == (y * y) % Q
  IN (yy - xx - 1 - (d % Q) * ((xx * yy) % Q)) % Q = 0

\* The affine points of the curve: for each y the two candidates for x.
CurvePoints ==
  {p \in UNION {{<<_xrecover(y), y>>, <<(Q - _xrecover(y)) % Q, y>>} :
                  y \in 0..(Q - 1)} : OnCurve(p[1], p[2])}

\* The extended form of the affine point p with third coordinate z.
Extended(p, z) ==
  <<(p[1] * z) % Q, (p[2] * z) % Q, z, (((p[1] * p[2]) % Q) * z) % Q>>

ExtendedPoints == {Extended(p, z) : p \in CurvePoints, z \in 1..MaxZ}

KeyStrings == [1..KeyLen -> Bytes]

\* The arguments of one application: a point and a scalar, or a byte string.
ArithInputs ==
  {[op |-> "none", pt |-> P, n |-> n, s |-> <<>>, out |-> <<>>] :
     P \in ExtendedPoints, n \in 0..MaxN}
  \cup {[op |-> "none", pt |-> <<>>, n |-> 0, s |-> s, out |-> <<>>] :
          s \in KeyStrings}

InitArith ==
  /\ hkey = 0
  /\ IdleCrypto
  /\ ar \in ArithInputs
  /\ IdleMain

DoubleOp ==
  /\ ar.op = "none"
  /\ ar.pt # <<>>
  /\ ar' = [ar EXCEPT !.op = "double", !.out = _double_element(ar.pt)]
  /\ UNCHANGED <<cryptoVars, mainVars>>

AddSelfOp ==
  /\ ar.op = "none"
  /\ ar.pt # <<>>
  /\ ar' = [ar EXCEPT !.op = "add", !.out = _add_elements(ar.pt, ar.pt)]
  /\ UNCHANGED <<cryptoVars, mainVars>>

ScalarmultOp ==
  /\ ar.op = "none"
  /\ ar.pt # <<>>
  /\ ar' = [ar EXCEPT !.op = "scalarmult",
                      !.out = _scalarmult_element(ar.pt, ar.n)]
  /\ UNCHANGED <<cryptoVars, mainVars>>

ClampOp ==
  /\ ar.op = "none"
  /\ ar.s # <<>>
  /\ ar' = [ar EXCEPT !.op = "clamp", !.out = _bytes_to_clamped_scalar(ar.s)]
  /\ UNCHANGED <<cryptoVars, mainVars>>

NextArith ==
  \/ DoubleOp
  \/ AddSelfOp
  \/ ScalarmultOp
  \/ ClampOp

SpecArith == InitArith /\ [][NextArith]_vars

(***************************************************************************)
(* main.py: the poem index, the buttons and memory.dat.                    *)
(*   memfile      memory.dat: kind "missing" (no file), "empty", "bad" (a  *)
(*                current_file_idx line int() rejects), "noidx" (no such   *)
(*                line) or "idx" with the integer of the line and the      *)
(*                counts of its file_ lines                                *)
(*   memory       the dictionary main_loop holds                           *)
(*   since_irq    ticks_diff(now, _last_irq_ms) in units of 100 ms, held   *)
(*                at 4 once it exceeds 300 ms                              *)
(*   mpc          "start" before line 260, then the statement of the loop  *)
(*                that runs next: "poll" 274, "k0" 275, "k1" 278,          *)
(*                "render" 281                                             *)
(*   read_idx     the index of the last read_code and execute_and_render   *)
(*   execs        the number of execute_and_render calls                   *)
(***************************************************************************)
clamp_idx(i) == IF i < 1 THEN 10 ELSE IF i > 10 THEN 1 ELSE i

default_memory(idx) == [current_file_idx |-> idx, files |-> <<>>]

\* read_memory (lines 42-54): the dictionary returned and the value left in
\* _current_idx.
read_memory(file, idx) ==
  IF file.kind \in {"missing", "empty", "bad"}
  THEN [memory |-> default_memory(idx), idx |-> idx]
  ELSE LET data == [current_file_idx |->
                      IF file.kind = "idx" THEN file.idx ELSE idx,
                    files |-> file.files]
       IN [memory |-> data, idx |-> clamp_idx(data.current_file_idx)]

\* format_memory then parse_memory: what memory.dat holds after write_memory.
format_memory(data) ==
  [kind |-> "idx", idx |-> data.current_file_idx, files |-> data.files]

\* Lines 251-253 of execute_and_render.
count_execution(mem, filename, idx) ==
  [current_file_idx |-> idx,
   files |-> [k \in DOMAIN mem.files \cup {filename} |->
                IF k = filename
                THEN (IF k \in DOMAIN mem.files THEN mem.files[k] ELSE 0) + 1
                ELSE mem.files[k]]]

StartFiles ==
  {[kind |-> k, idx |-> 0, files |-> <<>>] :
     k \in {"missing", "empty", "bad", "noidx"}}
  \cup {[kind |-> "idx", idx |-> v, files |-> <<>>] : v \in (-1)..MaxFileIdx}

InitMain ==
  /\ hkey = 0
  /\ IdleCrypto
  /\ IdleArith
  /\ memfile \in StartFiles
  /\ current_idx = 2
  /\ key0_pressed = FALSE
  /\ key1_pressed = FALSE
  /\ since_irq = 0
  /\ mpc = "start"
  /\ memory = default_memory(2)
  /\ read_idx = 2
  /\ execs = 0

\* Lines 260-272: memory.dat is created when missing, read, the index taken
\* from the dictionary, the poem read and executed; wok says whether the
\* write of execute_and_render succeeds (line 60 swallows a failure).
Startup(wok) ==
  /\ mpc = "start"
  /\ LET file1 == IF memfile.kind = "missing"
                  THEN format_memory(default_memory(current_idx))
                  ELSE memfile
         rd == read_memory(file1, current_idx)
         idx == rd.memory.current_file_idx
         mem == count_execution(rd.memory, idx, idx)
     IN /\ current_idx' = idx
        /\ read_idx' = idx
        /\ memory' = mem
        /\ memfile' = IF wok THEN format_memory(mem) ELSE file1
  /\ execs' = execs + 1
  /\ mpc' = "poll"
  /\ UNCHANGED <<cryptoVars, ar, key0_pressed, key1_pressed, since_irq>>

\* Line 274, and line 283 when no flag is set.
Poll ==
  /\ mpc = "poll"
  /\ mpc' = IF key0_pressed \/ key1_pressed THEN "k0" ELSE "poll"
  /\ UNCHANGED <<cryptoVars, ar, memfile, current_idx, key0_pressed,
                 key1_pressed, since_irq, memory, read_idx, execs>>

\* Lines 275-277.
Key0Branch ==
  /\ mpc = "k0"
  /\ IF key0_pressed
     THEN /\ current_idx' = clamp_idx(current_idx + 1)
          /\ key0_pressed' = FALSE
     ELSE UNCHANGED <<current_idx, key0_pressed>>
  /\ mpc' = "k1"
  /\ UNCHANGED <<cryptoVars, ar, memfile, key1_pressed, since_irq, memory,
                 read_idx, execs>>

\* Lines 278-280.
Key1Branch ==
  /\ mpc = "k1"
  /\ IF key1_pressed
     THEN /\ current_idx' = clamp_idx(current_idx - 1)
          /\ key1_pressed' = FALSE
     ELSE UNCHANGED <<current_idx, key1_pressed>>
  /\ mpc' = "render"
  /\ UNCHANGED <<cryptoVars, ar, memfile, key0_pressed, since_irq, memory,
                 read_idx, execs>>

\* Lines 281-283.
Render(wok) ==
  /\ mpc = "render"
  /\ execs < MaxExec
  /\ LET mem == count_execution(memory, current_idx, current_idx)
     IN /\ memory' = mem
        /\ memfile' = IF wok THEN format_memory(mem) ELSE memfile
  /\ read_idx' = current_idx
  /\ execs' = execs + 1
  /\ mpc' = "poll"
  /\ UNCHANGED <<cryptoVars, ar, current_idx, key0_pressed, key1_pressed,
                 since_irq>>

\* _key0_irq (lines 229-234); the handlers exist from line 271 on.
Key0Irq ==
  /\ mpc # "start"
  /\ since_irq > 3
  /\ key0_pressed' = TRUE
  /\ since_irq' = 0
  /\ UNCHANGED <<cryptoVars, ar, memfile, current_idx, key1_pressed, mpc,
                 memory, read_idx, execs>>

\* _key1_irq (lines 236-241).
Key1Irq ==
  /\ mpc # "start"
  /\ since_irq > 3
  /\ key1_pressed' = TRUE
  /\ since_irq' = 0
  /\ UNCHANGED <<cryptoVars, ar, memfile, current_idx, key0_pressed, mpc,
                 memory, read_idx, execs>>

\* 100 ms pass.
Tick ==
  /\ since_irq < 4
  /\ since_irq' = since_irq + 1
  /\ UNCHANGED <<cryptoVars, ar, memfile, current_idx, key0_pressed,
                 key1_pressed, mpc, memory, read_idx, execs>>

NextMain ==
  \/ \E wok \in BOOLEAN : Startup(wok)
  \/ Poll
  \/ Key0Branch
  \/ Key1Branch
  \/ \E wok \in BOOLEAN : Render(wok)
  \/ Key0Irq
  \/ Key1Irq
  \/ Tick

SpecMain == InitMain /\ [][NextMain]_vars

(***************************************************************************)
(* Helpers of the properties.                                              *)
(***************************************************************************)
InField(x) == x \in 0..(Q - 1)

AffineEqual(P1, P2) ==
  _xform_extended_to_affine(P1) = _xform_extended_to_affine(P2)

\* The point a KeyLen-byte string encodes (RFC 8032 decoding): y in the low
\* KeyBits-1 bits, the parity of x in the top bit.
DecodePoint(bs) ==
  LET v == _bytes_to_scalar(bs)
      y == v % 2^(KeyBits - 1)
      par == v \div 2^(KeyBits - 1)
      x == _xrecover(y)
  IN <<IF x % 2 # par THEN Q - x ELSE x, y>>

\* sign with the nonce reduced modulo L before both of its uses.
sign_reduced_nonce(seed, msg) ==
  LET pub == create_public_key(seed)
      h == _H(seed)
      inter == SubSeq(h, KeyLen + 1, 2 * KeyLen)
      a == _bytes_to_clamped_scalar(SubSeq(h, 1, KeyLen))
      r == _Hint(inter \o msg) % L
      R_pt == _scalarmult_element(_xform_affine_to_extended(B), r)
      Rb == _encodepoint(_xform_extended_to_affine(R_pt))
      S == r + _Hint(Rb \o pub \o msg) * a
  IN Rb \o _scalar_to_bytes(S)

(***************************************************************************)
(* The group law of the curve -x^2 + y^2 = 1 + d x^2 y^2 on affine points, *)
(* as RFC 8032 gives it, for a verifier that shares no code with the       *)
(* program.  The curve has 8*L points, so a scalar may be taken modulo     *)
(* 8*L before it multiplies a point.                                       *)
(***************************************************************************)
RefAdd(P1, P2) ==
  LET x1 == P1[1]
      y1 == P1[2]
      x2 == P2[1]
      y2 == P2[2]
      t == ((d % Q) * ((((x1 * x2) % Q) * ((y1 * y2) % Q)) % Q)) % Q
  IN <<((x1 * y2 + x2 * y1) * PowMod(1 + t, Q - 2, Q)) % Q,
       ((y1 * y2 + x1 * x2) * PowMod(1 - t, Q - 2, Q)) % Q>>

RECURSIVE RefMul(_, _)
RefMul(P, n) ==
  IF n = 0 THEN <<0, 1>>
  ELSE LET h == RefMul(P, n \div 2)
           h2 == RefAdd(h, h)
       IN IF n % 2 = 1 THEN RefAdd(h2, P) ELSE h2

(***************************************************************************)
(* C1.  Every signature sign returns satisfies the Ed25519 verification    *)
(* equation against create_public_key(seed): with R and A the points the   *)
(* first half of the signature and the public key encode, S the scalar the *)
(* second half encodes and k = Hint(R_bytes || pub || message), S*B equals *)
(* R + k*A.                                                                *)
(***************************************************************************)
C1_SignatureVerifies ==
  (pc = "done" /\ op = "sign") =>
    LET Rb == SubSeq(result, 1, KeyLen)
        Sb == SubSeq(result, KeyLen + 1, Len(result))
        pub == create_public_key(priv_key)
        S == _bytes_to_scalar(Sb)
        k == _Hint(Rb \o pub \o message)
        Rp == DecodePoint(Rb)
        Ap == DecodePoint(pub)
    IN /\ Len(result) = 2 * KeyLen
       /\ OnCurve(Rp[1], Rp[2])
       /\ OnCurve(Ap[1], Ap[2])
       /\ RefMul(B, S) = RefAdd(Rp, RefMul(Ap, k % (8 * L)))

(***************************************************************************)
(* C2.  A seed whose length is not KeyLen makes create_public_key and sign *)
(* end in the invalid-input error with no result, no digest computed and   *)
(* no curve step run; a seed of exactly KeyLen bytes never raises it.      *)
(***************************************************************************)
C2_WrongLengthRejected ==
  pc # "idle" =>
    /\ (Len(priv_key) # KeyLen) <=> (pc = "error")
    /\ pc = "error" =>
         /\ result = <<>>
         /\ pub_key = <<>>
         /\ hash_calls = 0
         /\ sm = NoSm
         /\ inv_log = ImportInvArgs

C2_Witness ==
  /\ pc = "error"
  /\ op = "sign"
  /\ Len(priv_key) = KeyLen + 1

(***************************************************************************)
(* C3.  create_public_key on a KeyLen-byte seed terminates, the loop of    *)
(* _scalarmult_element reaching n = 0, and returns exactly KeyLen bytes.   *)
(***************************************************************************)
C3_KeyDerivationTotal ==
  /\ [](pc = "done" /\ op = "create_public_key" => Len(result) = KeyLen)
  /\ (pc = "loop" /\ op = "create_public_key")
       ~> (pc = "done" /\ op = "create_public_key")

C3_Witness ==
  /\ pc = "done"
  /\ op = "create_public_key"
  /\ Len(result) = KeyLen
  /\ sm.n = 0

(***************************************************************************)
(* C7.  _inv never receives a value congruent to 0 modulo Q: not while the *)
(* module is imported, not as the Z coordinate _xform_extended_to_affine   *)
(* inverts in create_public_key and sign.                                  *)
(***************************************************************************)
C7_InvNeverZero == \A x \in inv_log : x % Q # 0

C9_UnreducedNonceEquivalent ==
  (pc = "done" /\ op = "sign") => result = sign_reduced_nonce(priv_key, message)

\* The integer a byte string holds, least significant byte first.
RECURSIVE LittleEndian(_)
LittleEndian(s) ==
  IF s = <<>> THEN 0 ELSE Head(s) + ByteBase * LittleEndian(Tail(s))

Bit(x, i) == (x \div 2^i) % 2

\* P + ... + P, n times, built with _add_elements from the identity.
RECURSIVE NFoldSum(_, _)
NFoldSum(P, n) ==
  IF n = 0 THEN _xform_affine_to_extended(<<0, 1>>)
  ELSE _add_elements(NFoldSum(P, n - 1), P)

(***************************************************************************)
(* C4.  _scalarmult_element(P, n) is affine-equal to the n-fold sum of P   *)
(* built with _add_elements from the identity; n = 0 returns the identity  *)
(* (0,1,1,0) and n = 1 a point affine-equal to P.                          *)
(***************************************************************************)
C4_ScalarmultIsNFoldSum ==
  ar.op = "scalarmult" =>
    /\ AffineEqual(ar.out, NFoldSum(ar.pt, ar.n))
    /\ ar.n = 0 => ar.out = <<0, 1, 1, 0>>
    /\ ar.n = 1 => AffineEqual(ar.out, ar.pt)

(***************************************************************************)
(* C5.  For every curve point P in extended form, _double_element(P) and   *)
(* _add_elements(P, P) are the same point in affine form.                  *)
(***************************************************************************)
C5_DoubleIsAddSelf ==
  ar.op = "add" => AffineEqual(ar.out, _double_element(ar.pt))

(***************************************************************************)
(* C6.  _bytes_to_clamped_scalar returns the little-endian integer of its  *)
(* input with bits 0-2 cleared, the top bit cleared, the bit below it set  *)
(* and every other bit unchanged: a multiple of 8 in                       *)
(* [2^(KeyBits-2), 2^(KeyBits-1)).                                         *)
(***************************************************************************)
C6_ClampBits ==
  ar.op = "clamp" =>
    /\ \A i \in 0..(KeyBits - 1) :
         Bit(ar.out, i) = IF i \in 0..2 THEN 0
                          ELSE IF i = KeyBits - 1 THEN 0
                          ELSE IF i = KeyBits - 2 THEN 1
                          ELSE Bit(LittleEndian(ar.s), i)
    /\ ar.out % 8 = 0
    /\ ar.out >= 2^(KeyBits - 2)
    /\ ar.out < 2^(KeyBits - 1)

C6_Witness ==
  /\ ar.op = "clamp"
  /\ Bit(LittleEndian(ar.s), 0) = 1
  /\ Bit(LittleEndian(ar.s), KeyBits - 1) = 1
  /\ Bit(LittleEndian(ar.s), KeyBits - 2) = 0
  /\ Bit(LittleEndian(ar.s), 3) = 1
  /\ ar.s[1] # ar.s[KeyLen]

====
